---- MODULE Spec2Model ----
(***************************************************************************)
(* Model of static/js/chat_logic.js: the chat client's session lifecycle,  *)
(* send pipeline, history reconciliation and tutorial context cache.       *)
(*                                                                         *)
(* Every async function of the client is split at its awaits: the part up  *)
(* to the first await is one action, each continuation after an await is   *)
(* another.  Backend answers are chosen by \E at the continuation.  The    *)
(* backend keeps the set of sessions and the stored history of each.       *)
(***************************************************************************)
EXTENDS Naturals, Sequences, FiniteSets

\* ------------------------------------------------------------- bounds ----
MaxSends == 2
MaxSelects == 1
MaxPending == 2
MaxStarts == 2
MaxLen == 3

\* ------------------------------------------------------------ domains ----
Null == "null"                 \* JS null (no active session, no stored pointer)
Undef == "undefined"           \* JS undefined, and its string form in sessionStorage

AllIds == <<"s1", "s2", "s3", "s4", "s5", "s6">>
InitIds == {"s1"}              \* sessions the backend may hold before the page loads
SessionIds == {AllIds[i] : i \in 1..(MaxSends + 1)}

\* Text is a sequence of tokens; " " is the whitespace token.
SP == " "
NoText == <<>>
Msgs == {<<"a">>}
Contents == {NoText, <<"c">>}
Summaries == {NoText, <<"s">>}
Clarifieds == {NoText, <<"x">>}
StepLists == {<<>>, <<"st1", "st2">>, <<"st3">>}

\* ------------------------------------------------------- JS primitives ---
RECURSIVE TrimLeft(_)
TrimLeft(t) == IF t # <<>> /\ Head(t) = SP THEN TrimLeft(Tail(t)) ELSE t

RECURSIVE TrimRight(_)
TrimRight(t) ==
    IF t # <<>> /\ t[Len(t)] = SP THEN TrimRight(SubSeq(t, 1, Len(t) - 1)) ELSE t

Trim(t) == TrimRight(TrimLeft(t))

\* !currentSessionId : null and undefined are both falsy
\* A test that takes every session id for an absent one.
Falsy_anything(v) == TRUE

Falsy(v) == v \in {Null, Undef}

\* A history entry: a "User: .." / "Assistant: .." string, or a {role, content} object.
UserStr(m) == [form |-> "str", role |-> "user", text |-> m]
AssistantStr(t) == [form |-> "str", role |-> "assistant", text |-> t]
UserObj(m) == [form |-> "obj", role |-> "user", text |-> m]
AssistantObj(t) == [form |-> "obj", role |-> "assistant", text |-> t]

\* Entries a stored history may also hold: a string without a known prefix, an
\* object with another role, an object with a role and no content, a value that
\* is neither a string nor an object, and null.
PlainStr(t) == [form |-> "str", role |-> "none", text |-> t]
OtherRoleObj(t) == [form |-> "obj", role |-> "system", text |-> t]
BareObj(role) == [form |-> "bare", role |-> role, text |-> NoText]
NotAnEntry == [form |-> "num", role |-> "none", text |-> NoText]
NullEntry == [form |-> "nil", role |-> "none", text |-> NoText]
\* {role: "assistant", data: {type: "tutorial_clarify"}}: rich data without the
\* clarified_step its renderer reads.
BrokenRichObj == [form |-> "rich", role |-> "assistant", text |-> NoText]

\* Lines 174-194: the message divs addMessage appends for one history, in order.
\* A string entry is shown when it starts with "User: " or "Assistant: ", an
\* object entry when its role is user or assistant; msg.content of an object
\* without content is undefined and is shown as an empty message.  addMessage
\* appends the message div (line 320) before it renders msg.data (lines 332-346):
\* when the renderer throws, forEach is left and the catch of line 201 runs.
RECURSIVE Hydrate(_)
Hydrate(history) ==
    IF history = <<>> THEN <<>>
    ELSE LET msg == Head(history)
             rest == Hydrate(Tail(history))
         IN  IF msg = BrokenRichObj
                 THEN <<[role |-> msg.role, text |-> NoText]>>
             ELSE IF msg.form = "str" /\ msg.role \in {"user", "assistant"}
                 THEN <<[role |-> msg.role, text |-> msg.text]>> \o rest
             ELSE IF msg.form \in {"obj", "bare"} /\ msg.role \in {"user", "assistant"}
                 THEN <<[role |-> msg.role, text |-> msg.text]>> \o rest
             ELSE rest

\* Histories the backend may hold for a session before the page loads.
InitHists == {<<>>, <<UserStr(<<"h">>), AssistantObj(<<"c">>)>>}

\* Entries of a stored history, well-formed and not, and the histories of at most
\* MaxEntries of them.
MaxEntries == 2
EntryKinds ==
    {UserStr(<<"h">>), AssistantStr(<<"c">>), UserObj(<<"h">>), AssistantObj(<<"c">>),
     PlainStr(<<"h">>), OtherRoleObj(<<"h">>), BareObj("user"), BareObj("assistant"),
     NotAnEntry, NullEntry, BrokenRichObj}
AnyHists == UNION {[1..n -> EntryKinds] : n \in 0..MaxEntries}

\* ------------------------------------------------------------- state -----
VARIABLES
    currentSessionId,    \* let currentSessionId
    activeSessionId,     \* sessionStorage["activeSessionId"]
    chatStateHistory,    \* let chatStateHistory
    lastTutorialSteps,   \* let lastTutorialSteps
    isFirstLoad,         \* let isFirstLoad
    sendBtnDisabled,     \* sendBtn.disabled
    messageInput,        \* messageInput.value
    sends,               \* sendMessage() calls, in call order, each with its position
    selects,             \* selectSession() calls awaiting GET /sessions/{id}
    fetches,             \* fetchSessions() calls awaiting GET /sessions
    srvSessions,         \* backend: sessions that exist
    srvUsed,             \* backend: ids ever given out
    srvHist,             \* backend: stored history of each session
    histOwners,          \* history: the sessions whose entries chatStateHistory holds
    tutorialOwner,       \* history: session whose answer filled lastTutorialSteps
    scn,                 \* history: progress of "new chat, send, answer, send"
    sessionToDelete,     \* let sessionToDelete
    deletes,             \* confirmDeleteBtn.onclick calls awaiting DELETE /sessions/{id}
    renames,             \* renameSession() calls awaiting PUT /sessions/{id}
    srvTitles,           \* backend: title of each session
    isRecording,         \* let isRecording
    mediaRecorder,       \* let mediaRecorder
    timerInterval,       \* let timerInterval
    acquiring,           \* startRecording() calls awaiting getUserMedia
    recorders,           \* MediaRecorder objects that are recording
    timers,              \* setInterval timers that are running
    uploads,             \* sendAudioToBackend() calls awaiting POST /transcribe
    displayed,           \* chatHistory.children: the messages on the page
    typing,              \* typeWriter() reveals that are still running
    tw,                  \* typeWriter(): the reveal of one assistant message
    indicators           \* the #typing-indicator elements in chatHistory

vars == <<currentSessionId, activeSessionId, chatStateHistory, lastTutorialSteps,
          isFirstLoad, sendBtnDisabled, messageInput, sends, selects, fetches,
          srvSessions, srvUsed, srvHist, histOwners, tutorialOwner, scn,
          sessionToDelete, deletes, renames, srvTitles,
          isRecording, mediaRecorder, timerInterval, acquiring, recorders, timers,
          uploads, displayed, typing, tw, indicators>>

clientVars == <<currentSessionId, activeSessionId, chatStateHistory,
                lastTutorialSteps, isFirstLoad, sendBtnDisabled, messageInput>>
srvVars == <<srvSessions, srvUsed, srvHist>>
ownerVars == <<histOwners, tutorialOwner>>
delVars == <<sessionToDelete, deletes, renames, srvTitles>>
domVars == <<displayed, typing, tw, indicators>>
voiceVars == <<isRecording, mediaRecorder, timerInterval, acquiring, recorders,
               timers, uploads>>

\* -------------------------------------------------- backend responses ----
ArrayOf(v) == [isArray |-> TRUE, val |-> v]
NotArray == [isArray |-> FALSE, val |-> <<>>]
ClarifiedStep(t) == [present |-> TRUE, clarified |-> t]
NoClarifiedStep == [present |-> FALSE, clarified |-> NoText]

\* The body of a 2xx answer of POST /chat, without its conversation_history.
ChatShapes ==
    [type : {"tutorial"}, content : Contents, summary : Summaries,
     steps : {NotArray} \cup {ArrayOf(l) : l \in StepLists},
     clarified_step : {NoClarifiedStep}]
    \cup
    [type : {"tutorial_clarify"}, content : Contents, summary : {NoText},
     steps : {NotArray, ArrayOf(<<"st3">>)},
     clarified_step : {NoClarifiedStep} \cup {ClarifiedStep(t) : t \in Clarifieds}]
    \cup
    [type : {"general", "capabilities", "error"}, content : Contents,
     summary : {NoText}, steps : {NotArray}, clarified_step : {NoClarifiedStep}]

\* What the backend stores for one answered exchange.
Exchange(msg, shape) == <<UserObj(msg), AssistantObj(shape.content)>>

\* The next unused id of the backend, if it has one left.
FreshIds == SessionIds \ srvUsed
FreshId == CHOOSE n \in FreshIds :
               \A i, j \in 1..Len(AllIds) :
                   (AllIds[i] = n /\ AllIds[j] \in FreshIds) => i <= j

\* ------------------------------------------------- addMessage (render) ---
\* The owner of an entry pushed before its session has an id.
SendTags == <<"k1", "k2", "k3", "k4", "k5", "k6">>

\* One message div of the page (lines 308-320) with the text it shows.
Shown(role, text) == [role |-> role, text |-> text]
ErrorText == <<"sorry">>
\* The reveal of the reply of send k, and of its error message.
ErrTags == <<"e1", "e2", "e3", "e4", "e5", "e6">>
ReplyTag(k) == SendTags[k]
ErrorTag(k) == ErrTags[k]

\* A removeTypingIndicator that finds no element.
Removed_nothing(n) == n

\* removeTypingIndicator (lines 610-613): one element, if there is one, goes.
Removed(n) == IF n > 0 THEN n - 1 ELSE 0

\* typeWriter before it is called: nothing to reveal, no timer, no callback run.
TwIdle == [text |-> NoText, complex |-> FALSE, i |-> 0, shown |-> NoText,
           timer |-> FALSE, runs |-> 0, callbacks |-> 0, complexShown |-> FALSE]

\* renderTutorialClarifyResponse reads cs.step_number of data.clarified_step.
RenderThrows(data) == data.type = "tutorial_clarify" /\ ~data.clarified_step.present

\* ----------------------------------------------------- sendMessage -------
\* The cache updated from any answer that carries a steps array.
TutorialStepsAfter_anyType(cache, data) ==
    IF data.steps.isArray THEN data.steps.val ELSE cache

\* Lines 676-679: the cache after a rendered answer.
TutorialStepsAfter(cache, data) ==
    IF data.type = "tutorial" /\ data.steps.isArray THEN data.steps.val ELSE cache

\* Lines 682-693: the assistant text derived for the local history.
AssistantText(data) ==
    Trim(IF data.type = "tutorial"
            THEN data.content \o <<SP>> \o data.summary
         ELSE IF data.type = "tutorial_clarify"
            THEN (IF data.clarified_step.present
                     THEN data.clarified_step.clarified
                     ELSE data.content)
         ELSE data.content)

\* Lines 694-696.
PushAssistant(history, data) ==
    IF AssistantText(data) # NoText
        THEN Append(history, AssistantStr(AssistantText(data)))
        ELSE history

RECURSIVE PushAll(_, _)
PushAll(target, items) ==
    IF items = <<>> THEN target
    ELSE PushAll(Append(target, Head(items)), Tail(items))

\* The server history taken only when strictly longer than the local one.
SyncHistory_strictlyLonger(local, conv) ==
    IF conv.isArray
        THEN IF Len(conv.val) > Len(local) THEN PushAll(<<>>, conv.val) ELSE local
        ELSE local

\* Lines 698-706: conv is data.conversation_history.
SyncHistory(local, conv) ==
    IF conv.isArray
        THEN IF Len(conv.val) >= Len(local) THEN PushAll(<<>>, conv.val) ELSE local
        ELSE local

\* The chat request sent without the cached steps.
Payload_noTutorial(message, sessionId, tutorialSteps) ==
    [message |-> message, session_id |-> sessionId, last_tutorial |-> <<>>]

\* Lines 653-657: the body of POST /chat.
Payload(message, sessionId, tutorialSteps) ==
    [message |-> message, session_id |-> sessionId, last_tutorial |-> tutorialSteps]

NoPayload == [message |-> NoText, session_id |-> Null, last_tutorial |-> <<>>]

\* One call of sendMessage: its position, its locals, and what it did so far.
NewSend(message, pc, payload) ==
    [msg |-> message, pc |-> pc, lazy |-> (pc = "create"), payload |-> payload,
     result |-> "pending", errors |-> 0]

SendTag(k) == SendTags[k]

InFlight(pc) == {k \in 1..Len(sends) : sends[k].pc = pc}

\* ------------------------------------------------- scenario progress -----
\* stage: off, landing (newChat ran), first (a send began on the landing page),
\* sent (its chat request is out), answered (its answer was handled), second (the
\* next send began); selecting (selectSession began), hydrated / unloaded (its
\* GET answered / failed).  from: the stage before "second", or who selected.
ScnOff == [stage |-> "off", from |-> "off", sid |-> Null, steps |-> NotArray]
ScnLanding == [ScnOff EXCEPT !.stage = "landing"]
ScnSelecting(who, id) == [ScnOff EXCEPT !.stage = "selecting", !.from = who, !.sid = id]
Pristine ==
    /\ currentSessionId = Null
    /\ chatStateHistory = <<>>
    /\ lastTutorialSteps = <<>>
\* Any step outside the scenario ends it.
Disturbed == scn' = ScnOff

\* ------------------------------------------------------- user input ------
\* messageInput "input" listener (lines 732-735): the user edits the field.
TypeInput(txt) ==
    /\ txt # messageInput
    /\ messageInput' = txt
    /\ sendBtnDisabled' = (Trim(txt) = NoText)
    /\ UNCHANGED <<currentSessionId, activeSessionId, chatStateHistory,
                   lastTutorialSteps, isFirstLoad, sends, selects, fetches,
                   srvVars, ownerVars, scn>>
    /\ UNCHANGED <<delVars, voiceVars, domVars>>

\* sendMessage up to its first await (lines 625-663), messageInput.value being
\* `input` and the page showing `before` typing indicators.  With an active
\* session the chat request goes out at once.
SendMessageOf(input, before) ==
    /\ Len(sends) < MaxSends
    /\ Trim(input) # NoText
    /\ LET message == Trim(input)
           k == Len(sends) + 1
       IN  /\ chatStateHistory' = Append(chatStateHistory, UserStr(message))
           /\ histOwners' = histOwners \cup
                  {IF Falsy(currentSessionId) THEN SendTag(k) ELSE currentSessionId}
           /\ sends' = Append(sends,
                  IF Falsy(currentSessionId)
                      THEN NewSend(message, "create", NoPayload)
                      ELSE NewSend(message, "chat",
                               Payload(message, currentSessionId, lastTutorialSteps)))
           /\ displayed' = Append(displayed, Shown("user", message))
    /\ indicators' = before + 1
    /\ messageInput' = NoText
    /\ sendBtnDisabled' = TRUE
    /\ scn' = IF scn.stage = "landing" THEN [scn EXCEPT !.stage = "first"]
              ELSE IF scn.stage \in {"first", "sent", "answered"}
                  THEN [scn EXCEPT !.stage = "second", !.from = scn.stage]
              ELSE ScnOff
    /\ UNCHANGED <<currentSessionId, activeSessionId, lastTutorialSteps, isFirstLoad,
                   selects, fetches, srvVars, tutorialOwner, typing, tw>>
    /\ UNCHANGED delVars

\* sendMessage called by handleKeyPress (lines 720-725).
SendMessage ==
    /\ SendMessageOf(messageInput, indicators)
    /\ UNCHANGED voiceVars

\* The catch block also recording its error message in the history.
SendCatch_pushesError(k) ==
    /\ sends' = [sends EXCEPT ![k].pc = "done", ![k].result = "error",
                              ![k].errors = @ + 1, ![k].msg = NoText,
                              ![k].payload = NoPayload]
    /\ sendBtnDisabled' = FALSE
    /\ Disturbed
    /\ displayed' = Append(displayed, Shown("assistant", ErrorText))
    /\ typing' = typing \cup {ErrorTag(k)}
    /\ chatStateHistory' = Append(chatStateHistory, AssistantStr(<<"sorry">>))
    /\ UNCHANGED <<lastTutorialSteps, ownerVars, fetches, tw>>

\* The catch and finally blocks of sendMessage (lines 711-717), the page showing
\* `shown` when the error is caught: its message is revealed by typeWriter.
SendCatchOn(k, shown) ==
    /\ sends' = [sends EXCEPT ![k].pc = "done", ![k].result = "error",
                              ![k].errors = @ + 1, ![k].msg = NoText,
                              ![k].payload = NoPayload]
    /\ sendBtnDisabled' = FALSE
    /\ Disturbed
    /\ displayed' = Append(shown, Shown("assistant", ErrorText))
    /\ typing' = typing \cup {ErrorTag(k)}
    /\ UNCHANGED <<chatStateHistory, lastTutorialSteps, ownerVars, fetches, tw>>

SendCatch(k) == SendCatchOn(k, displayed)

\* POST /sessions answered with a session id (lines 646-663).
CreateSessionOk(k) ==
    /\ sends[k].pc = "create"
    /\ FreshIds # {}
    /\ LET id == FreshId
       IN  /\ srvSessions' = srvSessions \cup {id}
           /\ srvUsed' = srvUsed \cup {id}
           /\ srvHist' = [srvHist EXCEPT ![id] = <<>>]
           /\ currentSessionId' = id
           /\ activeSessionId' = id
           /\ sends' = [sends EXCEPT ![k].pc = "chat",
                  ![k].payload = Payload(sends[k].msg, id, lastTutorialSteps)]
           /\ histOwners' = IF SendTag(k) \in histOwners
                               THEN (histOwners \ {SendTag(k)}) \cup {id}
                               ELSE histOwners
           /\ scn' = IF scn.stage = "first" /\ k = Len(sends)
                         THEN [scn EXCEPT !.stage = "sent", !.sid = id]
                         ELSE ScnOff
    /\ UNCHANGED <<chatStateHistory, lastTutorialSteps, isFirstLoad, sendBtnDisabled,
                   messageInput, selects, fetches, tutorialOwner>>
    /\ UNCHANGED <<delVars, voiceVars, domVars>>

\* POST /sessions answered with a JSON body without session_id (an error body):
\* the status is not read, so sessData.session_id is undefined (lines 646-663).
CreateSessionNoId(k) ==
    /\ sends[k].pc = "create"
    /\ currentSessionId' = Undef
    /\ activeSessionId' = Undef
    /\ sends' = [sends EXCEPT ![k].pc = "chat",
           ![k].payload = Payload(sends[k].msg, Undef, lastTutorialSteps)]
    /\ Disturbed
    /\ UNCHANGED <<chatStateHistory, lastTutorialSteps, isFirstLoad, sendBtnDisabled,
                   messageInput, selects, fetches, srvVars, ownerVars>>
    /\ UNCHANGED <<delVars, voiceVars, domVars>>

\* POST /sessions rejected, or answered with a body that is not JSON.
CreateSessionFails(k) ==
    /\ sends[k].pc = "create"
    /\ SendCatch(k)
    /\ indicators' = Removed(indicators)
    /\ UNCHANGED <<currentSessionId, activeSessionId, isFirstLoad, messageInput,
                   selects, srvVars>>
    /\ UNCHANGED <<delVars, voiceVars>>

\* fetchSessions up to its await (lines 47-49): the backend answers with the
\* sessions it holds when the request is made.
WithFetchOf(pending, list) == pending \cup {list}
WithFetch(pending) == WithFetchOf(pending, srvSessions)

\* POST /chat answered 2xx with `shape` (lines 665-718).  The backend stores the
\* exchange; conversation_history, when the answer carries it, is the stored history.
ChatAnswered(k, shape, withHistory) ==
    /\ sends[k].pc = "chat"
    /\ sends[k].payload.session_id \in srvSessions
    /\ LET sid == sends[k].payload.session_id
           stored == srvHist[sid] \o Exchange(sends[k].msg, shape)
           conv == IF withHistory THEN ArrayOf(stored) ELSE NotArray
           pushed == PushAssistant(chatStateHistory, shape)
           synced == SyncHistory(pushed, conv)
       IN  /\ srvHist' = [srvHist EXCEPT ![sid] = stored]
           /\ IF RenderThrows(shape)
                 THEN /\ SendCatchOn(k, Append(displayed, Shown("assistant", NoText)))
                      /\ indicators' = Removed(Removed(indicators))
                 ELSE /\ indicators' = Removed(indicators)
                      /\ UNCHANGED tw
                      /\ displayed' = Append(displayed, Shown("assistant", shape.content))
                      /\ typing' = IF shape.content # NoText
                                       THEN typing \cup {ReplyTag(k)} ELSE typing
                      /\ lastTutorialSteps' = TutorialStepsAfter(lastTutorialSteps, shape)
                      /\ tutorialOwner' =
                             IF lastTutorialSteps' = <<>> THEN Null
                             ELSE IF shape.type = "tutorial" /\ shape.steps.isArray
                                 THEN sid ELSE tutorialOwner
                      /\ chatStateHistory' = synced
                      /\ histOwners' =
                             IF conv.isArray /\ Len(conv.val) >= Len(pushed)
                                 THEN {sid}
                             ELSE IF pushed # chatStateHistory
                                 THEN histOwners \cup {sid}
                             ELSE histOwners
                      /\ fetches' = IF Len(synced) <= 2 THEN WithFetch(fetches)
                                                           ELSE fetches
                      /\ sendBtnDisabled' = FALSE
                      /\ sends' = [sends EXCEPT ![k].pc = "done", ![k].result = "ok",
                             ![k].msg = NoText, ![k].payload = NoPayload]
                      /\ scn' = IF scn.stage = "sent" /\ k = Len(sends)
                                   THEN [scn EXCEPT !.stage = "answered",
                                            !.steps = IF shape.type = "tutorial"
                                                         THEN shape.steps ELSE NotArray]
                                   ELSE ScnOff
    /\ UNCHANGED <<currentSessionId, activeSessionId, isFirstLoad, messageInput,
                   selects, srvSessions, srvUsed>>
    /\ UNCHANGED <<delVars, voiceVars>>

\* POST /chat rejected, or answered with a status that is not 2xx (lines 665-669,
\* 711-717): nothing was stored.  A rejected request removes the indicator in
\* the catch; an answered one at line 665 and again in the catch.
ChatFails(k) ==
    /\ sends[k].pc = "chat"
    /\ SendCatch(k)
    /\ indicators' \in {Removed(indicators), Removed(Removed(indicators))}
    /\ UNCHANGED <<currentSessionId, activeSessionId, isFirstLoad, messageInput,
                   selects, srvVars>>
    /\ UNCHANGED <<delVars, voiceVars>>

\* ------------------------------------------------- session manager -------
\* selectSession that does not persist the pointer.
SelectSessionCall_noPointer(sessionId, pendingFetches) ==
    IF currentSessionId = sessionId
        THEN /\ fetches' = pendingFetches
             /\ UNCHANGED <<currentSessionId, activeSessionId, selects>>
        ELSE /\ currentSessionId' = sessionId
             /\ activeSessionId' = activeSessionId
             /\ fetches' = WithFetch(pendingFetches)
             /\ selects' = selects \cup {[id |-> sessionId, prev |-> currentSessionId]}

\* selectSession without its first line.
SelectSessionCall_noReturn(sessionId, pendingFetches) ==
    /\ currentSessionId' = sessionId
    /\ activeSessionId' = sessionId
    /\ fetches' = WithFetch(pendingFetches)
    /\ selects' = selects \cup {[id |-> sessionId, prev |-> currentSessionId]}

\* selectSession up to its await (lines 151-162), on top of the pending fetches.
SelectSessionCall(sessionId, pendingFetches) ==
    IF currentSessionId = sessionId
        THEN /\ fetches' = pendingFetches
             /\ UNCHANGED <<currentSessionId, activeSessionId, selects>>
        ELSE /\ currentSessionId' = sessionId
             /\ activeSessionId' = sessionId
             /\ fetches' = WithFetch(pendingFetches)
             /\ selects' = selects \cup {[id |-> sessionId, prev |-> currentSessionId]}

\* newChat (lines 206-222), on top of the pending fetches, while the backend
\* holds `list`.
NewChatOn(pendingFetches, list) ==
    /\ currentSessionId' = Null
    /\ activeSessionId' = Null
    /\ chatStateHistory' = <<>>
    /\ lastTutorialSteps' = <<>>
    /\ messageInput' = NoText
    /\ fetches' = WithFetchOf(pendingFetches, list)
    /\ displayed' = <<>>
    /\ indicators' = 0
    /\ histOwners' = {}
    /\ tutorialOwner' = Null
    /\ scn' = ScnLanding

NewChatCall(pendingFetches) == NewChatOn(pendingFetches, srvSessions)

\* A click on a session of the sidebar (lines 115-120): the sidebar lists what
\* a session-list answer held, so the page has loaded and the id was given out.
ClickSessionWithin(sessionId, pending) ==
    /\ ~isFirstLoad
    /\ Cardinality(selects) < pending
    /\ sessionId \in srvUsed
    /\ currentSessionId # sessionId
    /\ SelectSessionCall(sessionId, fetches)
    /\ scn' = IF scn.stage = "landing" THEN ScnSelecting("click", sessionId) ELSE ScnOff
    /\ UNCHANGED <<chatStateHistory, lastTutorialSteps, isFirstLoad, sendBtnDisabled,
                   messageInput, sends, srvVars, ownerVars>>
    /\ UNCHANGED <<delVars, voiceVars, domVars>>

ClickSession(sessionId) == ClickSessionWithin(sessionId, MaxSelects)

\* A click on the sidebar item of the session that currentSessionId names
\* (lines 115-120, 152).
ClickActiveSession(sessionId) ==
    /\ ~isFirstLoad
    /\ Cardinality(selects) < MaxSelects
    /\ currentSessionId = sessionId
    /\ SelectSessionCall(sessionId, fetches)
    /\ UNCHANGED <<chatStateHistory, lastTutorialSteps, isFirstLoad, sendBtnDisabled,
                   messageInput, sends, srvVars, ownerVars, scn>>
    /\ UNCHANGED <<delVars, voiceVars, domVars>>

\* A click on "new chat".
ClickNewChat ==
    /\ NewChatCall(fetches)
    /\ UNCHANGED <<isFirstLoad, sendBtnDisabled, sends, selects, srvVars>>
    /\ UNCHANGED <<delVars, voiceVars, typing, tw>>

\* GET /sessions/{id} answered 2xx (lines 165-200): data.history || [].
SelectLoaded(t) ==
    /\ t \in selects
    /\ t.id \in srvSessions
    /\ selects' = selects \ {t}
    /\ chatStateHistory' = srvHist[t.id]
    /\ displayed' = Hydrate(srvHist[t.id])
    /\ indicators' = 0
    /\ lastTutorialSteps' = <<>>
    /\ histOwners' = IF srvHist[t.id] = <<>> THEN {} ELSE {t.id}
    /\ tutorialOwner' = Null
    /\ scn' = IF scn.stage = "selecting" /\ scn.sid = t.id
                  THEN [scn EXCEPT !.stage = "hydrated"] ELSE ScnOff
    /\ UNCHANGED <<currentSessionId, activeSessionId, isFirstLoad, sendBtnDisabled,
                   messageInput, sends, fetches, srvVars>>
    /\ UNCHANGED <<delVars, voiceVars, typing, tw>>

\* GET /sessions/{id} rejected or not 2xx (lines 163, 201-203).
SelectFails(t) ==
    /\ t \in selects
    /\ selects' = selects \ {t}
    /\ scn' = IF scn.stage = "selecting" /\ scn.sid = t.id
                  THEN [scn EXCEPT !.stage = "unloaded"] ELSE scn
    /\ UNCHANGED <<clientVars, sends, fetches, srvVars, ownerVars>>
    /\ UNCHANGED <<delVars, voiceVars, domVars>>

\* The stored pointer restored without looking it up in the fetched list.
RestoreSelects_unverified(pointer, list) == pointer # Null

\* Lines 55-65: the stored pointer names a session of the fetched list.
RestoreSelects(pointer, list) == pointer # Null /\ pointer \in list

\* GET /sessions answered with the list `f` (lines 50-78).  `f` is removed from the
\* pending fetches before the nested newChat / selectSession add theirs.
FetchLoaded(f) ==
    /\ f \in fetches
    /\ IF ~isFirstLoad
          THEN /\ fetches' = fetches \ {f}
               /\ UNCHANGED <<currentSessionId, activeSessionId, chatStateHistory,
                              lastTutorialSteps, messageInput, selects, ownerVars, scn,
                              displayed, indicators>>
       ELSE IF RestoreSelects(activeSessionId, f)
          THEN /\ SelectSessionCall(activeSessionId, fetches \ {f})
               /\ scn' = IF Pristine THEN ScnSelecting("restore", activeSessionId)
                                     ELSE ScnOff
               /\ UNCHANGED <<chatStateHistory, lastTutorialSteps, messageInput,
                              ownerVars, displayed, indicators>>
          ELSE /\ NewChatCall(fetches \ {f})
               /\ UNCHANGED selects
    /\ isFirstLoad' = FALSE
    /\ UNCHANGED <<sendBtnDisabled, sends, srvVars>>
    /\ UNCHANGED <<delVars, voiceVars, typing, tw>>

\* GET /sessions rejected, or answered with a body that is not JSON (lines 79-81).
FetchFails(f) ==
    /\ f \in fetches
    /\ fetches' = fetches \ {f}
    /\ UNCHANGED <<clientVars, sends, selects, srvVars, ownerVars, scn>>
    /\ UNCHANGED <<delVars, voiceVars, domVars>>

\* ------------------------------------------------------- typeWriter -----
\* Lines 395-422: the last timer tick of a reveal shows the full text and runs
\* the callback that appends the structured content.
TypeWriterDone(tag) ==
    /\ tag \in typing
    /\ typing' = typing \ {tag}
    /\ UNCHANGED <<clientVars, sends, selects, fetches, srvVars, ownerVars, scn,
                   delVars, voiceVars, displayed, tw, indicators>>

\* The prose of an assistant message: at most MaxLen characters.
Chars == {"p", "*", SP}
Proses == UNION {[1..n -> Chars] : n \in 0..MaxLen}

nonTwVars == <<clientVars, sends, selects, fetches, srvVars, ownerVars, scn, delVars,
               voiceVars, displayed, typing, indicators>>

\* A reveal of two characters per run.
TypeRun_twoChars(t) ==
    IF t.i < Len(t.text)
        THEN [t EXCEPT !.shown = SubSeq(t.text, 1,
                                        IF t.i + 2 <= Len(t.text) THEN t.i + 2
                                                                  ELSE Len(t.text)),
                       !.i = t.i + 2, !.timer = TRUE, !.runs = @ + 1]
        ELSE [t EXCEPT !.shown = t.text, !.timer = FALSE, !.runs = @ + 1,
                       !.callbacks = @ + 1, !.complexShown = t.complex]

\* type() (lines 404-419): one more character is shown and a timer is set, or,
\* all characters being shown, the full text is rendered and the callback of
\* addMessage (lines 356-366) appends the structured content.
TypeRun(t) ==
    IF t.i < Len(t.text)
        THEN [t EXCEPT !.shown = SubSeq(t.text, 1, t.i + 1),
                       !.i = t.i + 1, !.timer = TRUE, !.runs = @ + 1]
        ELSE [t EXCEPT !.shown = t.text, !.timer = FALSE, !.runs = @ + 1,
                       !.callbacks = @ + 1, !.complexShown = t.complex]

\* addMessage of an assistant message with animation (lines 353-373): prose is
\* handed to typeWriter, whose first run of type() is immediate (line 421);
\* without prose the structured content is shown at once.
AddMessageAnimated(text, complex) ==
    /\ ~tw.timer
    /\ tw' = IF text # NoText
                 THEN TypeRun([TwIdle EXCEPT !.text = text, !.complex = complex])
                 ELSE [TwIdle EXCEPT !.complex = complex, !.complexShown = complex]
    /\ UNCHANGED nonTwVars

\* setTimeout(type, speed) fires (line 412).
TypeTick ==
    /\ tw.timer
    /\ tw' = TypeRun(tw)
    /\ UNCHANGED nonTwVars

\* ------------------------------------------------- delete and rename -----
Titles == {"t0", "t1"}
\* What prompt() returns: a title, or null when the user cancels.
PromptResults == Titles \cup {Null}

sideVars == <<clientVars, sends, selects, fetches, srvVars, ownerVars, scn, voiceVars,
              domVars>>

\* deleteSession (lines 226-229): the trash button of a listed session opens the
\* confirmation.
ClickDelete(sessionId) ==
    /\ ~isFirstLoad
    /\ sessionId \in srvUsed
    /\ sessionToDelete # sessionId
    /\ sessionToDelete' = sessionId
    /\ UNCHANGED <<sideVars, deletes, renames, srvTitles>>

\* closeConfirmModal (lines 231-234): the confirmation is cancelled.
CancelDelete ==
    /\ sessionToDelete # Null
    /\ sessionToDelete' = Null
    /\ UNCHANGED <<sideVars, deletes, renames, srvTitles>>

\* confirmDeleteBtn.onclick up to its await (lines 236-245).
ConfirmDelete ==
    /\ sessionToDelete # Null
    /\ Cardinality(deletes) < MaxSelects
    /\ deletes' = deletes \cup {sessionToDelete}
    /\ sessionToDelete' = Null
    /\ UNCHANGED <<sideVars, renames, srvTitles>>

\* The delete handler that never resets the client.
AfterDelete_refreshOnly(sessionId, list) ==
    /\ fetches' = WithFetchOf(fetches, list)
    /\ UNCHANGED <<currentSessionId, activeSessionId, chatStateHistory,
                   lastTutorialSteps, messageInput, ownerVars, displayed,
                   indicators>>
    /\ Disturbed

\* Lines 247-254: after a 2xx answer, while the backend holds `list`.
AfterDelete(sessionId, list) ==
    IF currentSessionId = sessionId
        THEN NewChatOn(fetches, list)
        ELSE /\ fetches' = WithFetchOf(fetches, list)
             /\ UNCHANGED <<currentSessionId, activeSessionId, chatStateHistory,
                            lastTutorialSteps, messageInput, ownerVars, displayed,
                            indicators>>
             /\ Disturbed

\* DELETE /sessions/{id} answered 2xx: the backend dropped the session.
DeleteOk(sessionId) ==
    /\ sessionId \in deletes
    /\ sessionId \in srvSessions
    /\ deletes' = deletes \ {sessionId}
    /\ srvSessions' = srvSessions \ {sessionId}
    /\ srvHist' = [srvHist EXCEPT ![sessionId] = <<>>]
    /\ srvTitles' = [srvTitles EXCEPT ![sessionId] = "t0"]
    /\ AfterDelete(sessionId, srvSessions \ {sessionId})
    /\ UNCHANGED <<isFirstLoad, sendBtnDisabled, sends, selects, srvUsed,
                   sessionToDelete, renames, voiceVars, typing, tw>>

\* DELETE /sessions/{id} rejected or not 2xx (lines 247, 255-257).
DeleteFails(sessionId) ==
    /\ sessionId \in deletes
    /\ deletes' = deletes \ {sessionId}
    /\ UNCHANGED <<sideVars, sessionToDelete, renames, srvTitles>>

\* renameSession up to its await (lines 260-269): the pencil button of a listed
\* session, whose title the sidebar shows as currentTitle.
ClickRename(sessionId, currentTitle, newTitle) ==
    /\ ~isFirstLoad
    /\ sessionId \in srvUsed
    /\ Cardinality(renames) < MaxSelects
    /\ newTitle # Null /\ newTitle # currentTitle
    /\ renames' = renames \cup {[id |-> sessionId, title |-> newTitle]}
    /\ UNCHANGED <<sideVars, sessionToDelete, deletes, srvTitles>>

\* PUT /sessions/{id} answered 2xx (lines 271-273).
RenameOk(r) ==
    /\ r \in renames
    /\ r.id \in srvSessions
    /\ renames' = renames \ {r}
    /\ srvTitles' = [srvTitles EXCEPT ![r.id] = r.title]
    /\ fetches' = WithFetch(fetches)
    /\ UNCHANGED <<clientVars, sends, selects, srvVars, ownerVars, scn, voiceVars,
                   domVars, sessionToDelete, deletes>>

\* PUT /sessions/{id} rejected or not 2xx (lines 271, 274-276).
RenameFails(r) ==
    /\ r \in renames
    /\ renames' = renames \ {r}
    /\ UNCHANGED <<sideVars, sessionToDelete, deletes, srvTitles>>

\* ------------------------------------------------------------- voice -----
\* MediaRecorder objects, each named like the setInterval handle of its start.
AllRecs == <<"r1", "r2", "r3", "r4">>
RecIds == {AllRecs[i] : i \in 1..MaxStarts}
\* What POST /transcribe answers in data.text.
Transcripts == {NoText, <<SP>>, <<"v">>}

\* The next recorder, one that no variable and no pending call refers to.
FreshRecs == RecIds \ (recorders \cup timers \cup uploads
                           \cup {mediaRecorder, timerInterval})
FreshRec == CHOOSE r \in FreshRecs :
                \A i, j \in 1..Len(AllRecs) :
                    (AllRecs[i] = r /\ AllRecs[j] \in FreshRecs) => i <= j

quietVars == <<clientVars, sends, selects, fetches, srvVars, ownerVars, scn,
               delVars, displayed, typing, tw>>
nonVoiceVars == <<quietVars, indicators>>

\* stopRecording (lines 793-805) and the onstop handler up to its await (lines
\* 768-770, 816-826): the recorder stops, a typing indicator is shown, its
\* buffer is uploaded, the timer that timerInterval names is cleared.
StopRecording ==
    IF mediaRecorder # Null /\ isRecording
        THEN /\ recorders' = recorders \ {mediaRecorder}
             /\ uploads' = uploads \cup {mediaRecorder}
             /\ indicators' = indicators + 1
             /\ isRecording' = FALSE
             /\ timers' = timers \ {timerInterval}
             /\ UNCHANGED <<mediaRecorder, timerInterval, acquiring>>
        ELSE UNCHANGED <<voiceVars, indicators>>

\* toggleRecording (lines 749-755), startRecording up to its await (line 759):
\* a click on the microphone button.
ToggleRecording ==
    /\ IF isRecording
          THEN StopRecording
          ELSE /\ acquiring < MaxStarts
               /\ acquiring' = acquiring + 1
               /\ UNCHANGED <<isRecording, mediaRecorder, timerInterval, recorders,
                              timers, uploads, indicators>>
    /\ UNCHANGED quietVars

\* getUserMedia resolved (lines 761-786): a recorder and a timer are started.
AcquireOk ==
    /\ acquiring > 0
    /\ FreshRecs # {}
    /\ acquiring' = acquiring - 1
    /\ mediaRecorder' = FreshRec
    /\ recorders' = recorders \cup {FreshRec}
    /\ isRecording' = TRUE
    /\ timerInterval' = FreshRec
    /\ timers' = timers \cup {FreshRec}
    /\ UNCHANGED <<uploads, nonVoiceVars>>

\* getUserMedia rejected (lines 787-790).
AcquireFails ==
    /\ acquiring > 0
    /\ acquiring' = acquiring - 1
    /\ UNCHANGED <<isRecording, mediaRecorder, timerInterval, recorders, timers,
                   uploads, nonVoiceVars>>

\* A transcript that is never taken for a text.
TranscriptUsable_never(text) == FALSE

\* Line 837: if (data.text).
TranscriptUsable(text) == text # NoText

\* POST /transcribe answered 2xx with data.text = text (lines 828-844): a text
\* is put in the input field and sendMessage is called, which returns at once
\* when the text is blank.
TranscribeOk(r, text) ==
    /\ r \in uploads
    /\ uploads' = uploads \ {r}
    /\ IF TranscriptUsable(text)
          THEN IF Trim(text) # NoText
                  THEN SendMessageOf(text, Removed(indicators))
                  ELSE /\ messageInput' = text
                       /\ indicators' = Removed(indicators)
                       /\ UNCHANGED <<currentSessionId, activeSessionId,
                                      chatStateHistory, lastTutorialSteps,
                                      isFirstLoad, sendBtnDisabled, sends, selects,
                                      fetches, srvVars, ownerVars, scn, delVars,
                                      displayed, typing, tw>>
          ELSE /\ indicators' = Removed(indicators)
               /\ UNCHANGED quietVars
    /\ UNCHANGED <<isRecording, mediaRecorder, timerInterval, acquiring, recorders,
                   timers>>

\* POST /transcribe rejected, not 2xx, or its body is not JSON (lines 830-832,
\* 845-850).
TranscribeFails(r) ==
    /\ r \in uploads
    /\ uploads' = uploads \ {r}
    /\ indicators' = Removed(indicators)
    /\ UNCHANGED <<isRecording, mediaRecorder, timerInterval, acquiring, recorders,
                   timers, quietVars>>

\* ---------------------------------------------------------- the system ---
\* The page has just loaded: window.onload = fetchSessions (line 738) is pending;
\* sessionStorage may hold the pointer of the tab's previous page.
InitOver(hists) ==
    /\ currentSessionId = Null
    /\ activeSessionId \in {Null} \cup InitIds
    /\ chatStateHistory = <<>>
    /\ lastTutorialSteps = <<>>
    /\ isFirstLoad = TRUE
    /\ sendBtnDisabled = TRUE
    /\ messageInput = NoText
    /\ sends = <<>>
    /\ selects = {}
    /\ srvSessions \in SUBSET InitIds
    /\ srvUsed = InitIds
    /\ \E held \in [InitIds -> hists \ {<<>>}] :
           srvHist = [id \in SessionIds |->
                         IF id \in srvSessions THEN held[id] ELSE <<>>]
    /\ fetches = {srvSessions}
    /\ histOwners = {}
    /\ tutorialOwner = Null
    /\ scn = ScnOff
    /\ sessionToDelete = Null
    /\ deletes = {}
    /\ renames = {}
    /\ srvTitles = [id \in SessionIds |-> "t0"]
    /\ isRecording = FALSE
    /\ mediaRecorder = Null
    /\ timerInterval = Null
    /\ acquiring = 0
    /\ recorders = {}
    /\ timers = {}
    /\ uploads = {}
    /\ displayed = <<>>
    /\ typing = {}
    /\ tw = TwIdle
    /\ indicators = 0

Init == InitOver(InitHists)

\* Answer shapes of the two runs: a few for the user who acts at any time, every
\* type and every steps value for the user who waits.
MainShapes == {sh \in ChatShapes : sh.content # NoText /\ sh.summary = NoText
                                  /\ sh.type \in {"tutorial", "general"}
                                  /\ sh.steps \in {NotArray, ArrayOf(<<"st1", "st2">>)}}
SeqShapes == {sh \in ChatShapes : sh.content # NoText /\ sh.summary = NoText
                  /\ (sh.clarified_step.present => sh.clarified_step.clarified # NoText)}

\* Steps of the user, who types "a", and of the backend's answers.
UserStep ==
    \/ \E txt \in Msgs \cup {NoText} : TypeInput(txt)
    \/ SendMessage
    \/ \E id \in SessionIds : ClickSession(id)
    \/ ClickNewChat

AnswerStep(shapes) ==
    \/ \E k \in InFlight("create") : CreateSessionOk(k)
    \/ \E k \in InFlight("create") : CreateSessionNoId(k)
    \/ \E k \in InFlight("create") : CreateSessionFails(k)
    \/ \E k \in InFlight("chat"), shape \in shapes, withHistory \in BOOLEAN :
           ChatAnswered(k, shape, withHistory)
    \/ \E k \in InFlight("chat") : ChatFails(k)
    \/ \E t \in selects : SelectLoaded(t)
    \/ \E t \in selects : SelectFails(t)
    \/ \E f \in fetches : FetchLoaded(f)
    \/ \E f \in fetches : FetchFails(f)

\* The user acts at any time, whatever is pending.
Next == UserStep \/ AnswerStep(MainShapes)

Spec == Init /\ [][Next]_vars

\* Every request the client made has been answered.
Answered ==
    /\ InFlight("create") = {} /\ InFlight("chat") = {}
    /\ selects = {}
    /\ fetches = {}
    /\ deletes = {}
    /\ renames = {}

\* The user waits for the answers before acting again; every type of answer.
NextSeq ==
    \/ Answered /\ \E txt \in Msgs \cup {NoText} : TypeInput(txt)
    \/ Answered /\ SendMessage
    \/ Answered /\ \E id \in SessionIds : ClickSession(id)
    \/ Answered /\ ClickNewChat
    \/ AnswerStep(SeqShapes)

SpecSeq == Init /\ [][NextSeq]_vars

\* The sidebar's delete and rename, with a user who waits for the answers and
\* renames only a session that existed before the page loaded.
DelShapes == {sh \in MainShapes : sh.type = "general" \/ sh.steps.isArray}

\* The confirmation is modal: while it is open the user confirms or cancels.
Idle == Answered /\ sessionToDelete = Null

NextDel ==
    \/ Idle /\ \E txt \in Msgs : TypeInput(txt)
    \/ Idle /\ SendMessage
    \/ Idle /\ \E id \in SessionIds : ClickSession(id)
    \/ Idle /\ ClickNewChat
    \/ Idle /\ \E id \in SessionIds : ClickDelete(id)
    \/ Answered /\ CancelDelete
    \/ Answered /\ ConfirmDelete
    \/ Idle /\ \E id \in InitIds, cur \in Titles, new \in PromptResults :
                   ClickRename(id, cur, new)
    \/ AnswerStep(DelShapes)
    \/ \E id \in deletes : DeleteOk(id)
    \/ \E id \in deletes : DeleteFails(id)
    \/ \E r \in renames : RenameOk(r)
    \/ \E r \in renames : RenameFails(r)

SpecDel == Init /\ [][NextDel]_vars

\* The page while the reveals run: a user who waits for the backend's answers,
\* not for the typewriter.
NextDom ==
    \/ Answered /\ \E txt \in Msgs : TypeInput(txt)
    \/ Answered /\ SendMessage
    \/ Answered /\ ClickNewChat
    \/ AnswerStep(MainShapes)
    \/ \E tag \in typing : TypeWriterDone(tag)

SpecDom == Init /\ [][NextDom]_vars

\* One conversation at a time, the backend answering with any body.
NextText ==
    \/ Answered /\ \E txt \in Msgs : TypeInput(txt)
    \/ Answered /\ SendMessage
    \/ Answered /\ ClickNewChat
    \/ AnswerStep(ChatShapes)

SpecText == Init /\ [][NextText]_vars

\* Voice input: every message is dictated.  The user waits for the answers and
\* for the transcript before clicking or typing; the device and the
\* transcription answer when they like.
VoiceShapes == {sh \in MainShapes : sh.type = "general"}
NextVoice ==
    \/ Answered /\ uploads = {} /\ ToggleRecording
    \/ AcquireOk
    \/ AcquireFails
    \/ \E r \in uploads, text \in Transcripts : TranscribeOk(r, text)
    \/ \E r \in uploads : TranscribeFails(r)
    \/ Answered /\ \E txt \in Msgs : TypeInput(txt)
    \/ AnswerStep(VoiceShapes)

\* One assistant message after the other is revealed; timers fire.
NextType ==
    \/ \E text \in Proses, complex \in BOOLEAN : AddMessageAnimated(text, complex)
    \/ TypeTick

SpecType == Init /\ [][NextType]_vars /\ WF_vars(TypeTick)

\* The user sends and waits for the answer, and clicks on sessions without
\* waiting for the one clicked before to load.
NextSelect ==
    \/ Answered /\ \E txt \in Msgs : TypeInput(txt)
    \/ Answered /\ SendMessage
    \/ /\ InFlight("create") \cup InFlight("chat") = {}
       /\ \E id \in SessionIds : ClickSessionWithin(id, MaxPending)
    \/ AnswerStep(VoiceShapes)

SpecSelect == Init /\ [][NextSelect]_vars

SpecVoice == Init /\ [][NextVoice]_vars

\* fetch() of POST /transcribe settles: every upload is answered or rejected.
TranscribeReturns ==
    \E r \in uploads :
        TranscribeFails(r) \/ \E text \in Transcripts : TranscribeOk(r, text)

SpecVoiceLive == Init /\ [][NextVoice]_vars /\ WF_vars(TranscribeReturns)

\* fetch() of POST /sessions and of POST /chat settles.
SendReturns ==
    \/ \E k \in InFlight("create") :
           CreateSessionOk(k) \/ CreateSessionNoId(k) \/ CreateSessionFails(k)
    \/ \E k \in InFlight("chat") :
           \/ ChatFails(k)
           \/ \E shape \in VoiceShapes, withHistory \in BOOLEAN :
                  ChatAnswered(k, shape, withHistory)

SpecSendLive ==
    Init /\ [][NextVoice]_vars /\ WF_vars(TranscribeReturns) /\ WF_vars(SendReturns)

\* Sessions of any stored history are opened and left, nothing is sent.
NextHydrate ==
    \/ Answered /\ \E id \in InitIds : ClickSession(id)
    \/ Answered /\ \E id \in InitIds : ClickActiveSession(id)
    \/ Answered /\ ClickNewChat
    \/ \E t \in selects : SelectLoaded(t)
    \/ \E t \in selects : SelectFails(t)
    \/ \E f \in fetches : FetchLoaded(f)
    \/ \E f \in fetches : FetchFails(f)

SpecHydrate == InitOver(AnyHists) /\ [][NextHydrate]_vars

\* ================================================================ claims ==
LastSend == sends[Len(sends)]
Landing ==
    /\ currentSessionId = Null
    /\ chatStateHistory = <<>>
    /\ lastTutorialSteps = <<>>

C2_OneCreateForTwoSends ==
    scn.stage = "second" =>
        /\ ~LastSend.lazy
        /\ LastSend.payload.session_id = scn.sid

\* C3: at most one chat request of this tab is in flight at any time.
C3_OneChatInFlight == Cardinality(InFlight("chat")) <= 1

\* C4: once no selectSession is pending, the tutorial cache is empty or holds the
\* steps of an answer received for the currently active session.
C4_CacheOfCurrentSession ==
    selects = {} =>
        (lastTutorialSteps = <<>> \/ tutorialOwner = currentSessionId)

\* C5: an answer whose type is not tutorial leaves the cache as it is; the cache
\* changes only to the steps array of a tutorial answer, or to empty.
C5_CacheStability ==
    [][/\ \A k \in InFlight("chat"), shape \in SeqShapes, wh \in BOOLEAN :
              (ChatAnswered(k, shape, wh) /\ shape.type # "tutorial") =>
                  lastTutorialSteps' = lastTutorialSteps
       /\ lastTutorialSteps' # lastTutorialSteps =>
              \/ lastTutorialSteps' = <<>>
              \/ \E k \in InFlight("chat"), shape \in SeqShapes, wh \in BOOLEAN :
                     /\ ChatAnswered(k, shape, wh)
                     /\ shape.type = "tutorial" /\ shape.steps.isArray
                     /\ lastTutorialSteps' = shape.steps.val]_vars

\* C5 witness: a tutorial answer filled the cache, a clarify answer followed (its
\* clarified text is the last history entry) and the cache still holds the steps.
C5_Witness ==
    /\ lastTutorialSteps = <<"st1", "st2">>
    /\ Len(sends) = 2 /\ sends[2].result = "ok"
    /\ chatStateHistory # <<>>
    /\ chatStateHistory[Len(chatStateHistory)] = AssistantStr(<<"x">>)

\* C6: every chat request that goes out carries the cache as last_tutorial and
\* the active session id; and after new chat, send, a tutorial answer with steps,
\* send again, the second request carries those steps and the first request's
\* session id.
C6_PayloadCarriesCache ==
    /\ [][\A k \in 1..Len(sends') :
              ((k > Len(sends) \/ sends[k].pc # "chat") /\ sends'[k].pc = "chat") =>
                  /\ sends'[k].payload.last_tutorial = lastTutorialSteps'
                  /\ sends'[k].payload.session_id = currentSessionId']_vars
    /\ []((scn.stage = "second" /\ scn.from = "answered" /\ scn.steps.isArray) =>
              /\ LastSend.pc = "chat"
              /\ LastSend.payload.last_tutorial = scn.steps.val
              /\ LastSend.payload.session_id = scn.sid)

\* C6 witness: the scenario ran to its second send after a tutorial of 2 steps.
C6_Witness ==
    /\ scn.stage = "second" /\ scn.from = "answered"
    /\ scn.steps = ArrayOf(<<"st1", "st2">>)
    /\ LastSend.payload.last_tutorial = <<"st1", "st2">>

\* C7: when a selectSession that changed the active id has finished, loaded or
\* failed, the history holds no entry of the session that was active before.
C7_PreviousHistoryDiscarded ==
    [][\A t \in selects :
          (t \notin selects' /\ t.prev # t.id /\ ~Falsy(t.prev)) =>
              t.prev \notin histOwners']_vars

\* C8: a send puts its user entry on the history when it begins and, when it
\* fails, shows one error message and leaves history and cache as they are.
C8_FailedSendKeepsHistory ==
    [][\A k \in 1..Len(sends') :
          /\ k > Len(sends) =>
                 chatStateHistory' = Append(chatStateHistory, UserStr(sends'[k].msg))
          /\ (k <= Len(sends) /\ sends[k].pc = "create" /\ sends'[k].pc = "chat") =>
                 chatStateHistory' = chatStateHistory
          /\ (k <= Len(sends) /\ sends[k].result = "pending"
                  /\ sends'[k].result = "error") =>
                 /\ chatStateHistory' = chatStateHistory
                 /\ lastTutorialSteps' = lastTutorialSteps
                 /\ sends'[k].errors = 1
                 /\ sends'[k].pc = "done"]_vars

\* C8 witness: a send failed and the history is its user entry alone.
C8_Witness ==
    /\ Len(sends) = 1
    /\ sends[1].result = "error" /\ sends[1].errors = 1
    /\ chatStateHistory = <<UserStr(<<"a">>)>>

\* C9: the first session list that arrives decides the restore: no pointer, or a
\* pointer that is not in the list, ends in the landing state with the pointer
\* cleared; a pointer that is in the list becomes the active id and is kept.
C9_RestoreOnLoad ==
    [][\A f \in fetches :
          (isFirstLoad /\ FetchLoaded(f)) =>
              /\ ~isFirstLoad'
              /\ (activeSessionId = Null \/ activeSessionId \notin f) =>
                     (Landing' /\ activeSessionId' = Null)
              /\ (activeSessionId # Null /\ activeSessionId \in f) =>
                     /\ currentSessionId' = activeSessionId
                     /\ activeSessionId' = activeSessionId]_vars

\* C9 witness: the page loaded with a pointer that the backend lists; the first
\* list has arrived, that session is active and the pointer is kept.
C9_Witness ==
    /\ ~isFirstLoad
    /\ scn.stage = "selecting" /\ scn.from = "restore"
    /\ currentSessionId = scn.sid /\ activeSessionId = scn.sid
    /\ scn.sid \in srvSessions

\* C10: once the GET of a selectSession(id) is settled, the active id, the
\* pointer, the history and the cache are the same function of id and of the
\* backend's history whether the page load restored id or the user clicked it on
\* the landing page.
C10_RestoreLikeSelect ==
    scn.stage \in {"hydrated", "unloaded"} =>
        <<currentSessionId, activeSessionId, chatStateHistory, lastTutorialSteps>>
            = <<scn.sid, scn.sid,
                IF scn.stage = "hydrated" THEN srvHist[scn.sid] ELSE <<>>,
                <<>>>>

\* C10 witness: a restore on load hydrated a stored session with a history.
C10_Witness ==
    /\ scn.stage = "hydrated" /\ scn.from = "restore"
    /\ chatStateHistory # <<>>

\* The same by a click on the landing page.
C10_WitnessClick ==
    /\ scn.stage = "hydrated" /\ scn.from = "click"
    /\ chatStateHistory # <<>>

\* C11: once the restore on load is done, the stored pointer is present exactly
\* when a session is active, and then it is the active session's id.
C11_PointerAgreement ==
    ~isFirstLoad =>
        /\ (activeSessionId # Null) <=> ~Falsy(currentSessionId)
        /\ activeSessionId # Null => activeSessionId = currentSessionId

RoleText(history) ==
    [i \in 1..Len(history) |-> [role |-> history[i].role, text |-> history[i].text]]

\* A history without the optimistic "User: .." entries at its end.
RECURSIVE Confirmed(_)
Confirmed(history) ==
    IF history # <<>> /\ history[Len(history)] = UserStr(history[Len(history)].text)
        THEN Confirmed(SubSeq(history, 1, Len(history) - 1))
        ELSE history

IsPrefix(p, q) == Len(p) <= Len(q) /\ SubSeq(q, 1, Len(p)) = p

\* C13: once no selectSession is pending, the local history of the active session
\* without its trailing optimistic entries is, as (role, text) messages, a prefix
\* of the history the backend stores for that session.
C13_PrefixConsistent ==
    (selects = {} /\ currentSessionId \in srvSessions) =>
        IsPrefix(RoleText(Confirmed(chatStateHistory)),
                 RoleText(srvHist[currentSessionId]))

\* C14: a session-list fetch is issued after every mutation of the session list:
\* when the send that lazily created a session finishes, by an answer or by a
\* failure of its chat request, a fetch whose list holds the created session has
\* been issued; a successful delete and a successful rename issue a fetch of the
\* list as it is after them.
C14_MutationRefreshes ==
    [][/\ \A k \in 1..Len(sends) :
              (/\ sends[k].lazy /\ sends[k].pc = "chat"
               /\ sends[k].payload.session_id \in srvSessions
               /\ sends'[k].pc = "done") =>
                  \E list \in fetches' : sends[k].payload.session_id \in list
       /\ \A id \in SessionIds : DeleteOk(id) => srvSessions' \in fetches'
       /\ \A r \in renames : RenameOk(r) => srvSessions' \in fetches']_vars

\* C15: when a delete is answered 2xx and the deleted id is the active one, the
\* client ends in the newChat state (no session id, no pointer, empty history and
\* cache); when it is answered 2xx for another id, session id, pointer, history
\* and cache are unchanged and a list fetch is issued; when the delete fails or
\* the confirmation is cancelled, neither the client state nor the backend nor
\* the pending fetches change.
C15_DeleteFrames ==
    [][/\ \A id \in SessionIds : DeleteOk(id) =>
              IF currentSessionId = id
                  THEN Landing' /\ activeSessionId' = Null
                  ELSE /\ UNCHANGED <<currentSessionId, activeSessionId,
                                      chatStateHistory, lastTutorialSteps>>
                       /\ fetches' = fetches \cup {srvSessions'}
       /\ \A id \in SessionIds : DeleteFails(id) =>
              UNCHANGED <<clientVars, srvVars, srvTitles, fetches, domVars>>
       /\ CancelDelete =>
              UNCHANGED <<clientVars, srvVars, srvTitles, fetches, domVars,
                          deletes>>]_vars

\* Session s2, created by the first send and answered, was deleted: the client
\* is on the landing page, without pointer, and the refresh of the list without
\* s2 is pending.
C15_Witness ==
    /\ "s2" \in srvUsed \ srvSessions
    /\ Len(sends) = 1 /\ sends[1].lazy /\ sends[1].result = "ok"
    /\ Landing /\ activeSessionId = Null
    /\ displayed = <<>>
    /\ deletes = {} /\ sessionToDelete = Null
    /\ fetches = {srvSessions}

\* C16: when a chat answer without conversation_history is handled, the history
\* gains one assistant entry holding the derived text if that text is not empty,
\* and nothing otherwise; the derived text is content, a blank and summary,
\* trimmed, for a tutorial; clarified_step.clarified, or content when that is
\* missing or empty, for a tutorial_clarify; content for any other type.
C16_DerivedText ==
    [][\A k \in InFlight("chat"), shape \in ChatShapes :
           ChatAnswered(k, shape, FALSE) =>
               LET fallback == \/ ~shape.clarified_step.present
                               \/ shape.clarified_step.clarified = NoText
                   text == Trim(IF shape.type = "tutorial"
                                   THEN shape.content \o <<SP>> \o shape.summary
                                ELSE IF shape.type = "tutorial_clarify" /\ ~fallback
                                   THEN shape.clarified_step.clarified
                                ELSE shape.content)
               IN  chatStateHistory' =
                       IF text # NoText
                           THEN Append(chatStateHistory, AssistantStr(text))
                           ELSE chatStateHistory]_vars

\* C17: when the history of a selected session is loaded, the messages displayed
\* are those of its well-formed entries (a "User: "/"Assistant: " string, or an
\* object with role user or assistant and with its content), in the order of the
\* history, every other entry being skipped; a string entry and a structured
\* entry of the same role and text display the same message.
C17_HydrationSkipsMalformed ==
    [][\A t \in selects :
           SelectLoaded(t) =>
               LET WellFormed(msg) == /\ msg.form \in {"str", "obj"}
                                      /\ msg.role \in {"user", "assistant"}
               IN  displayed' = RoleText(SelectSeq(srvHist[t.id], WellFormed))]_vars

\* C18: a create-session request is issued only by sendMessage, and only when
\* currentSessionId holds no session id at that moment; the backend creates a
\* session only by answering such a request.  Page load, restore, selectSession,
\* newChat, delete and rename issue none.
C18_LazyCreation ==
    [][/\ (\E k \in 1..Len(sends') :
               sends'[k].pc = "create" /\ k \notin InFlight("create")) =>
              /\ SendMessage
              /\ currentSessionId \in {Null, Undef}
              /\ Len(sends') = Len(sends) + 1
       /\ srvUsed' # srvUsed =>
              \E k \in InFlight("create") :
                  sends[k].lazy /\ sends'[k].pc = "chat"]_vars

\* The first send, from the landing page, created session s2; the second one,
\* with s2 active, went to the chat endpoint without creating a session.
C18_Witness ==
    /\ Len(sends) = 2
    /\ sends[1].lazy /\ sends[1].result = "ok"
    /\ ~sends[2].lazy /\ sends[2].pc = "chat"
    /\ sends[2].payload.session_id = "s2"
    /\ srvUsed = {"s1", "s2"}

\* C19: at most one recorder is recording and at most one elapsed-time timer is
\* running, whatever the clicks on the microphone button.
C19_SingleCapture ==
    /\ Cardinality(recorders) <= 1
    /\ Cardinality(timers) <= 1

\* C20: when the transcription answers with a text that is not empty, the text
\* is put in the input field and sendMessage runs on it: a text that is not
\* blank is sent (user entry in the history, request issued, field cleared), a
\* blank one stays in the field; when the transcription answers with an empty
\* text, is rejected, or answers with a status that is not 2xx, the input field,
\* the session id, the pointer, the history and the cache are unchanged and no
\* request is issued.
C20_TranscriptHandling ==
    [][/\ \A r \in uploads, text \in Transcripts :
              TranscribeOk(r, text) =>
                  IF text = NoText
                      THEN UNCHANGED <<messageInput, currentSessionId, activeSessionId,
                                       chatStateHistory, lastTutorialSteps, sends>>
                  ELSE IF Trim(text) = NoText
                      THEN /\ messageInput' = text
                           /\ UNCHANGED <<currentSessionId, activeSessionId,
                                          chatStateHistory, lastTutorialSteps, sends>>
                  ELSE /\ messageInput' = NoText
                       /\ Len(sends') = Len(sends) + 1
                       /\ sends'[Len(sends')].msg = Trim(text)
                       /\ sends'[Len(sends')].pc \in {"create", "chat"}
                       /\ chatStateHistory' =
                              Append(chatStateHistory, UserStr(Trim(text)))
       /\ \A r \in uploads :
              TranscribeFails(r) =>
                  UNCHANGED <<messageInput, currentSessionId, activeSessionId,
                              chatStateHistory, lastTutorialSteps, sends>>]_vars

\* A recording was stopped and transcribed as "v": the text is on its way to the
\* backend as a user message and the input field is empty again.
C20_Witness ==
    /\ uploads = {}
    /\ mediaRecorder # Null /\ ~isRecording
    /\ messageInput = NoText
    /\ sends # <<>>
    /\ LastSend.msg = <<"v">> /\ LastSend.pc \in {"create", "chat"}
    /\ chatStateHistory # <<>>
    /\ chatStateHistory[Len(chatStateHistory)] = UserStr(<<"v">>)

\* The streams that hold the microphone: a stream is released by the onstop
\* handler of its recorder once the upload has returned (lines 768-773).
DeviceHeld == recorders \cup uploads # {}

\* C21: a stop of the recording in progress stops one recorder and issues one
\* upload of its buffer; and once a recording was stopped and no start is
\* pending, the microphone is eventually released, however the transcription
\* ends.
C21_StopReleasesDevice ==
    /\ [][(isRecording /\ ~isRecording') =>
              \E r \in recorders \ uploads :
                  /\ recorders' = recorders \ {r}
                  /\ uploads' = uploads \cup {r}]_vars
    /\ (mediaRecorder # Null /\ ~isRecording /\ acquiring = 0) ~> ~DeviceHeld

\* C22: during the reveal of a prose of n characters the text shown is a prefix
\* of the prose, of as many characters as type() has run; every run but the
\* last shows one character more; the run after the n-th shows the full prose
\* and calls the callback, which is called once; the structured content is
\* shown only by that callback, or at once when there is no prose; and every
\* reveal that was started ends.
C22_ProgressiveReveal ==
    /\ [](/\ Len(tw.shown) <= Len(tw.text)
          /\ tw.shown = SubSeq(tw.text, 1, Len(tw.shown))
          /\ tw.timer => (tw.runs = Len(tw.shown) /\ tw.callbacks = 0)
          /\ tw.callbacks <= 1
          /\ tw.callbacks = 1 => (tw.shown = tw.text /\ tw.runs = Len(tw.text) + 1)
          /\ tw.complexShown => (tw.complex /\ (tw.text = NoText \/ tw.callbacks = 1)))
    /\ [][TypeTick =>
              IF Len(tw.shown) < Len(tw.text)
                  THEN /\ Len(tw'.shown) = Len(tw.shown) + 1
                       /\ ~tw'.complexShown
                  ELSE /\ tw'.shown = tw.text
                       /\ tw'.callbacks = 1
                       /\ tw'.complexShown = tw.complex]_vars
    /\ (tw.timer ~> (tw.callbacks = 1 /\ ~tw.timer))

\* A prose of MaxLen characters was revealed in MaxLen + 1 runs of type() and its
\* structured content was appended by the callback.
C22_Witness ==
    /\ Len(tw.text) = MaxLen
    /\ tw.shown = tw.text
    /\ tw.runs = MaxLen + 1
    /\ tw.callbacks = 1
    /\ tw.complexShown

\* C23: a click on the session that is already the current one changes neither
\* the session id, the pointer, the history nor the cache, and issues neither a
\* session-detail nor a session-list request.
C23_SelectActiveNoop ==
    [][\A id \in SessionIds :
           ClickActiveSession(id) =>
               UNCHANGED <<currentSessionId, activeSessionId, chatStateHistory,
                           lastTutorialSteps, selects, fetches, displayed>>]_vars

\* Session s1 is open with its history loaded and was clicked again: nothing is
\* pending.
C23_Witness ==
    /\ ~isFirstLoad
    /\ currentSessionId = "s1" /\ activeSessionId = "s1"
    /\ chatStateHistory = srvHist["s1"] /\ chatStateHistory # <<>>
    /\ selects = {} /\ fetches = {}
    /\ ENABLED ClickActiveSession("s1")

\* C24: when the last pending session-detail request is answered with a
\* history, the history is the backend's history of the session that
\* currentSessionId names, which is the one selected last.
C24_LastSelectionWins ==
    [][\A t \in selects :
           (SelectLoaded(t) /\ selects' = {}) =>
               /\ currentSessionId' = currentSessionId
               /\ chatStateHistory' = srvHist[currentSessionId]]_vars

\* C25: whenever currentSessionId names no session and neither a send nor a
\* session-detail request is pending, the history and the cache are empty.
C25_LandingInvariant ==
    (/\ currentSessionId = Null
     /\ InFlight("create") \cup InFlight("chat") = {}
     /\ selects = {}) =>
        (chatStateHistory = <<>> /\ lastTutorialSteps = <<>>)

\* C26: no step leaves more than one more session-list request pending than
\* there were; isFirstLoad changes once, from true to false, in the step that
\* handles a session list; and a session list that arrives while the history
\* holds a conversation changes neither the session id, the history nor the
\* cache.
C26_LoadRefreshTerminates ==
    [][/\ Cardinality(fetches') <= Cardinality(fetches) + 1
       /\ isFirstLoad' # isFirstLoad =>
              (isFirstLoad /\ \E f \in fetches : FetchLoaded(f))
       /\ \A f \in fetches :
              (FetchLoaded(f) /\ chatStateHistory # <<>>) =>
                  UNCHANGED <<currentSessionId, chatStateHistory,
                              lastTutorialSteps>>]_vars

Sending == InFlight("create") \cup InFlight("chat")

\* C27: the step that ends a send, by an answer or by a failure, enables the
\* send button; a send that began ends, with the button enabled and no typing
\* indicator on the page; an upload that began ends; and whenever no send and
\* no upload is pending, the page shows no typing indicator.
C27_SendCleanup ==
    /\ [][\A k \in Sending : sends'[k].pc = "done" => ~sendBtnDisabled']_vars
    /\ [](Sending = {} /\ uploads = {} => indicators = 0)
    /\ (Sending # {}) ~> (Sending = {} /\ ~sendBtnDisabled /\ indicators = 0)
    /\ (uploads # {}) ~> (uploads = {})

\* A dictated message was sent and its chat request failed: the button is
\* enabled again and no typing indicator is left.
C27_Witness ==
    /\ sends # <<>>
    /\ LastSend.pc = "done" /\ LastSend.result = "error"
    /\ mediaRecorder # Null /\ uploads = {}
    /\ ~sendBtnDisabled
    /\ indicators = 0
====
